---- MODULE Spec2Model ----
(***************************************************************************)
(* Model of mochi-lib's pitch-accent core (src/mochi-lib/src/lib.rs):      *)
(* KanaString::iter_mora, load_accents, generate_mora_edges,               *)
(* generate_html_for_accent and generate_html, and of the two callers of    *)
(* the flashcard service, list and add_pitch_accent_to_cards.              *)
(*                                                                         *)
(* A Rust String is a sequence of chars; a char is written as its romaji   *)
(* name ("ka", "xtu" for the small tsu, ...).  An Option is a sequence of  *)
(* length 0 (None) or 1 (Some).  An HTML string is the sequence of the     *)
(* pieces the format! calls put together: the literal pieces of the        *)
(* templates, the border declarations and the chars of the morae.          *)
(***************************************************************************)
EXTENDS Integers, Sequences, FiniteSets, TLC

VARIABLES pc, lines, words, call, ret, panic, lst

vars == <<pc, lines, words, call, ret, panic, lst>>

---------------------------------------------------------------------------
\* Bounds of the model.

\* longest reading handed to the pure functions
MaxLen == 5
\* largest drop index of a Nakadaka handed to the pure functions
MaxIndex == 5
\* longest reading field of the one-line resources
MaxKana == 3
\* largest accent index of the one-line resources
MaxCode == 4
\* most accent codes in the codes field of the one-line resources
MaxCodes == 2
\* longest word field of the one-line resources
MaxWord == 2
\* most lines of the multi-line resources
MaxRows == 3
\* largest limit handed to list
MaxLimit == 2
\* most docs in a page of the service
MaxDocs == 2
\* most non-empty pages the service has to give
MaxPages == 2
\* the recorded errors of list are counted up to this number
MaxErrors == 2
\* most cards handed to add_pitch_accent_to_cards
MaxCards == 2

\* chars the pure functions' readings are made of: two full-size kana and
\* two small (combining) kana
Alphabet == {"ka", "si", "xtu", "xya"}
\* chars the resources' fields are made of
LineAlphabet == {"ka", "xtu"}
\* the notes the enumerated accents carry
Notes == {<<"kei", "dou">>}

None == <<>>
Some(x) == <<x>>

\* all sequences over S of length at most n
RECURSIVE SeqsUpTo(_, _)
SeqsUpTo(S, n) ==
    IF n = 0 THEN {<<>>}
    ELSE LET shorter == SeqsUpTo(S, n - 1)
         IN  shorter \cup {Append(s, c) : s \in {t \in shorter : Len(t) = n - 1}, c \in S}

Readings == SeqsUpTo(Alphabet, MaxLen)

---------------------------------------------------------------------------
\* KanaString::iter_mora

\* the small kana: hiragana in lower case, katakana in upper case
ignore_list ==
    {"xa", "xi", "xu", "xe", "xo", "xtu", "xya", "xyu", "xyo",
     "XA", "XI", "XU", "XE", "XO", "XTU", "XYA", "XYU", "XYO", "XWA"}

\* iter_mora_loop testing the char just pushed in place of the peeked one
RECURSIVE iter_mora_loop_no_peek(_, _, _, _)
iter_mora_loop_no_peek(chars, pos, mora, morae) ==
    IF pos > Len(chars) THEN morae
    ELSE LET pushed == Append(mora, chars[pos])
         IN  IF pos < Len(chars) /\ chars[pos] \in ignore_list
             THEN iter_mora_loop_no_peek(chars, pos + 1, pushed, morae)
             ELSE iter_mora_loop_no_peek(chars, pos + 1, <<>>, Append(morae, pushed))

\* iter_mora_loop flushing the mora after at most one combining char
RECURSIVE iter_mora_loop_pairs(_, _, _, _)
iter_mora_loop_pairs(chars, pos, mora, morae) ==
    IF pos > Len(chars) THEN morae
    ELSE LET pushed == Append(mora, chars[pos])
         IN  IF pos < Len(chars) /\ chars[pos + 1] \in ignore_list /\ Len(pushed) < 2
             THEN iter_mora_loop_pairs(chars, pos + 1, pushed, morae)
             ELSE iter_mora_loop_pairs(chars, pos + 1, <<>>, Append(morae, pushed))

\* the while loop: pos is the char chars.next() returns, mora and morae are
\* the two vectors
RECURSIVE iter_mora_loop(_, _, _, _)
iter_mora_loop(chars, pos, mora, morae) ==
    IF pos > Len(chars) THEN morae
    ELSE LET pushed == Append(mora, chars[pos])
         IN  IF pos < Len(chars) /\ chars[pos + 1] \in ignore_list
             THEN iter_mora_loop(chars, pos + 1, pushed, morae)
             ELSE iter_mora_loop(chars, pos + 1, <<>>, Append(morae, pushed))

iter_mora(kana) == iter_mora_loop(kana, 1, <<>>, <<>>)

---------------------------------------------------------------------------
\* AccentType, Accent

Heiban == [tag |-> "Heiban"]
Atamadaka == [tag |-> "Atamadaka"]
Odaka == [tag |-> "Odaka"]
Nakadaka(idx) == [tag |-> "Nakadaka", idx |-> idx]

AccentTypes == {Heiban, Atamadaka, Odaka} \cup {Nakadaka(d) : d \in 0..MaxIndex}

Accent(accent_type, note) == [accent_type |-> accent_type, note |-> note]

Accents == {Accent(t, n) : t \in AccentTypes, n \in {None} \cup {Some(x) : x \in Notes}}

---------------------------------------------------------------------------
\* generate_mora_edges

\* mora_edge with the drop of a Nakadaka one mora late (i <= idx for i < idx)
mora_edge_late_drop(i, n_mora, accent_type) ==
    CASE accent_type.tag = "Heiban" ->
            IF i = 0 THEN <<"Bottom">>
            ELSE IF i = 1 THEN <<"Left", "Top">>
            ELSE <<"Top">>
      [] accent_type.tag = "Atamadaka" ->
            IF i = 0 THEN <<"Top">>
            ELSE IF i = 1 THEN <<"Left", "Bottom">>
            ELSE <<"Bottom">>
      [] accent_type.tag = "Nakadaka" ->
            IF i = 0 THEN <<"Bottom">>
            ELSE IF i = 1 THEN <<"Left", "Top">>
            ELSE IF i <= accent_type.idx THEN <<"Top">>
            ELSE IF i = accent_type.idx + 1 THEN <<"Left", "Bottom">>
            ELSE <<"Bottom">>
      [] accent_type.tag = "Odaka" ->
            IF i = 0 THEN (IF n_mora = 1 THEN <<"Top">> ELSE <<"Bottom">>)
            ELSE IF i = 1 THEN <<"Left", "Top">>
            ELSE <<"Top">>

\* the closure of the map: the edges of the mora at 0-based position i
mora_edge(i, n_mora, accent_type) ==
    CASE accent_type.tag = "Heiban" ->
            IF i = 0 THEN <<"Bottom">>
            ELSE IF i = 1 THEN <<"Left", "Top">>
            ELSE <<"Top">>
      [] accent_type.tag = "Atamadaka" ->
            IF i = 0 THEN <<"Top">>
            ELSE IF i = 1 THEN <<"Left", "Bottom">>
            ELSE <<"Bottom">>
      [] accent_type.tag = "Nakadaka" ->
            IF i = 0 THEN <<"Bottom">>
            ELSE IF i = 1 THEN <<"Left", "Top">>
            ELSE IF i < accent_type.idx THEN <<"Top">>
            ELSE IF i = accent_type.idx THEN <<"Left", "Bottom">>
            ELSE <<"Bottom">>
      [] accent_type.tag = "Odaka" ->
            IF i = 0 THEN (IF n_mora = 1 THEN <<"Top">> ELSE <<"Bottom">>)
            ELSE IF i = 1 THEN <<"Left", "Top">>
            ELSE <<"Top">>

\* particle_edge without the pitch drop after an Odaka word
particle_edge_no_drop(accent_type) ==
    CASE accent_type.tag = "Heiban" -> <<"Top">>
      [] accent_type.tag = "Atamadaka" -> <<"Bottom">>
      [] accent_type.tag = "Nakadaka" -> <<"Bottom">>
      [] accent_type.tag = "Odaka" -> <<"Top">>

\* the edges pushed for the particle following the word
particle_edge(accent_type) ==
    CASE accent_type.tag = "Heiban" -> <<"Top">>
      [] accent_type.tag = "Atamadaka" -> <<"Bottom">>
      [] accent_type.tag = "Nakadaka" -> <<"Bottom">>
      [] accent_type.tag = "Odaka" -> <<"Left", "Bottom">>

generate_mora_edges(kana_string, accent_type) ==
    LET n_mora == Len(iter_mora(kana_string))
        mora_edges == [p \in 1..n_mora |-> mora_edge(p - 1, n_mora, accent_type)]
    IN  Append(mora_edges, particle_edge(accent_type))

---------------------------------------------------------------------------
\* generate_html_for_accent

\* the char the renderer chains to the reading
Ellipsis == "..."

Min(a, b) == IF a < b THEN a ELSE b

\* Iterator::zip: stops at the end of the shorter side
zip(a, b) == [p \in 1..Min(Len(a), Len(b)) |-> <<a[p], b[p]>>]

\* collect::<String>() of a sequence of strings
RECURSIVE concat(_)
concat(strs) == IF strs = <<>> THEN <<>> ELSE Head(strs) \o concat(Tail(strs))

colour == "#FF6633"
width == "medium"
border_style == ": " \o colour \o " " \o width \o " solid;"

\* the match of the inner map: the declaration of one edge
border_decl(e) ==
    CASE e = "Top" -> "BORDER-TOP" \o border_style
      [] e = "Bottom" -> "BORDER-BOTTOM" \o border_style
      [] e = "Left" -> "BORDER-LEFT" \o border_style

\* border_css going through the edges from the last to the first
border_css_reversed(edges) ==
    [p \in 1..Len(edges) |-> border_decl(edges[Len(edges) + 1 - p])]

border_css(edges) == [p \in 1..Len(edges) |-> border_decl(edges[p])]

\* the closure of the outer map: the span of one (mora, edges) pair
mora_span(mora, edges) ==
    <<"<span style=\"">> \o border_css(edges) \o <<"\">">> \o mora \o <<"</span>">>

\* generate_html_for_accent segmenting the reading without the chained char
generate_html_for_accent_no_ellipsis(kana_string, accent) ==
    LET mora_edges == generate_mora_edges(kana_string, accent.accent_type)
        pairs == zip(iter_mora(kana_string), mora_edges)
        mora_html == concat([p \in 1..Len(pairs) |-> mora_span(pairs[p][1], pairs[p][2])])
    IN  IF accent.note # None
        THEN <<"<span style=\"font-weight:bold\">">> \o accent.note[1] \o <<": </span>">>
                 \o mora_html
        ELSE mora_html

generate_html_for_accent(kana_string, accent) ==
    LET mora_edges == generate_mora_edges(kana_string, accent.accent_type)
        kana_with_final_whitespace == kana_string \o <<Ellipsis>>
        pairs == zip(iter_mora(kana_with_final_whitespace), mora_edges)
        mora_html == concat([p \in 1..Len(pairs) |-> mora_span(pairs[p][1], pairs[p][2])])
    IN  IF accent.note # None
        THEN <<"<span style=\"font-weight:bold\">">> \o accent.note[1] \o <<": </span>">>
                 \o mora_html
        ELSE mora_html

---------------------------------------------------------------------------
\* load_accents

WordAccents(kana, accents) == [kana |-> kana, accents |-> accents]

EmptyMap == [w \in {} |-> <<>>]

\* a line is the sequence of its tab-separated fields: the word, the reading
\* and the codes; the codes field is the sequence of its comma-separated
\* codes, a code being what the two regular expressions capture in it: the
\* note (if any) and the index (if any)
Code(note, index) == [note |-> note, index |-> index]

\* classify without the test of index 1
classify_no_atamadaka(index, n_mora) ==
    IF index = 0 THEN Heiban
    ELSE IF index = n_mora THEN Odaka
    ELSE Nakadaka(index)

\* classify with the Odaka test moved in front of the Atamadaka test
classify_odaka_first(index, n_mora) ==
    IF index = 0 THEN Heiban
    ELSE IF index = n_mora THEN Odaka
    ELSE IF index = 1 THEN Atamadaka
    ELSE Nakadaka(index)

\* the if chain that classifies an index
classify(index, n_mora) ==
    IF index = 0 THEN Heiban
    ELSE IF index = 1 THEN Atamadaka
    ELSE IF index = n_mora THEN Odaka
    ELSE Nakadaka(index)

\* the closure of the map over the codes; the index is unwrapped
parse_code(code, n_mora) == Accent(classify(code.index[1], n_mora), code.note)

\* the reading of a line: the word when the reading field is empty
line_kana(line) == IF line[2] = <<>> THEN line[1] ELSE line[2]

\* the WordAccents of a line that has its three fields and an index in
\* every code
line_accents(line) ==
    LET kana == line_kana(line)
        n_mora == Len(iter_mora(kana))
    IN  WordAccents(kana, [p \in 1..Len(line[3]) |-> parse_code(line[3][p], n_mora)])

\* one of the unwrap calls of the loop body finds None
line_panics(line) ==
    \/ Len(line) < 3
    \/ \E p \in 1..Len(line[3]) : line[3][p].index = None

\* what the panic of the unwrap that finds None carries: the message of
\* Option::unwrap and the place of the call in the source
unwrap_panic(line) ==
    [message |-> "called Option::unwrap() on a None value",
     location |-> IF Len(line) < 2 THEN "src/lib.rs:343"
                  ELSE IF Len(line) < 3 THEN "src/lib.rs:349"
                  ELSE "src/lib.rs:361"]

\* entry_push putting the new row in the place of the rows of the word
entry_push_overwrite(map, word, accent_definition) ==
    [w \in DOMAIN map \cup {word} |->
        IF w = word THEN <<accent_definition>> ELSE map[w]]

\* words.entry(word).or_insert(vec![]).push(accent_definition)
entry_push(map, word, accent_definition) ==
    IF word \in DOMAIN map
    THEN [map EXCEPT ![word] = Append(@, accent_definition)]
    ELSE [w \in DOMAIN map \cup {word} |->
             IF w = word THEN <<accent_definition>> ELSE map[w]]

---------------------------------------------------------------------------
\* generate_html

MiddleDot == "\\u{30FB}"

\* join putting the separator after the last string too
RECURSIVE join_trailing(_, _)
join_trailing(strs, sep) ==
    IF strs = <<>> THEN <<>>
    ELSE strs[1] \o sep \o join_trailing(Tail(strs), sep)

\* [String]::join
RECURSIVE join(_, _)
join(strs, sep) ==
    IF strs = <<>> THEN <<>>
    ELSE IF Len(strs) = 1 THEN strs[1]
    ELSE strs[1] \o sep \o join(Tail(strs), sep)

\* the closure of the map over the rows of the word
row_html(wa) ==
    join([p \in 1..Len(wa.accents) |-> generate_html_for_accent(wa.kana, wa.accents[p])],
         <<MiddleDot>>)

\* generate_html returning the bare inner markup
generate_html_unwrapped(word, accent_map) ==
    LET rows == IF word \in DOMAIN accent_map THEN accent_map[word] ELSE <<>>
    IN  join([p \in 1..Len(rows) |-> row_html(rows[p])],
             <<"<div style=\"line-height:100%;\"><br></div>">>)

generate_html(word, accent_map) ==
    LET rows == IF word \in DOMAIN accent_map THEN accent_map[word] ELSE <<>>
        inner == join([p \in 1..Len(rows) |-> row_html(rows[p])],
                      <<"<div style=\"line-height:100%;\"><br></div>">>)
    IN  <<"<div style=\"text-align: center\">">> \o inner \o <<"</div>">>

---------------------------------------------------------------------------
\* The inputs.

\* the non-empty sequences over S of length at most n
NonEmptySeqsUpTo(S, n) == SeqsUpTo(S, n) \ {<<>>}

\* the lines made of the given words, readings and codes fields, together
\* with the lines that lack a field
LinesOf(ws, ks, cs) ==
    {<<w, k, c>> : w \in ws, k \in ks, c \in cs}
        \cup {<<w, k>> : w \in ws, k \in ks}
        \cup {<<w>> : w \in ws}

\* the lines of the one-line resources
RichLines ==
    LinesOf(SeqsUpTo(LineAlphabet, MaxWord), SeqsUpTo(LineAlphabet, MaxKana),
            NonEmptySeqsUpTo({Code(None, i) : i \in {None} \cup {Some(x) : x \in 0..MaxCode}},
                             MaxCodes))

\* the lines of the multi-line resources: two words, a reading field that
\* is empty or has two or three morae, and four codes fields
RowWords == {<<"ka">>, <<"si", "xya">>}
RowKanas == {<<>>, <<"ka", "si">>, <<"ka", "xtu", "si">>}
RowCodes ==
    {<<Code(None, Some(0))>>,
     <<Code(None, Some(2))>>,
     <<Code(Some(<<"kei", "dou">>), Some(1)), Code(None, Some(3))>>,
     <<Code(None, Some(1)), Code(None, None)>>}

RowLines == LinesOf(RowWords, RowKanas, RowCodes)

\* the words looked up: the words of the lines and one other word
LookupWords == RowWords \cup {<<"xtu">>}

---------------------------------------------------------------------------
\* list

\* the bookmarks the service hands out
Bookmarks == {"b1", "b2"}

\* the limits list is called with
Limits == {None} \cup {Some(n) : n \in 1..MaxLimit}

\* the answers of the service to a request: the request fails in transit;
\* an HTTP error status with a body that is JSON, is not JSON or cannot be
\* read; a success status with a body that is no page (None) or is a page
\* of docs (their number) with its bookmark
Responses ==
    {[kind |-> "send_err"]}
        \cup {[kind |-> "status_err", body |-> b] : b \in {"json", "not_json", "unreadable"}}
        \cup {[kind |-> "ok", page |-> None]}
        \cup {[kind |-> "ok", page |-> Some([docs |-> n, bookmark |-> b])] :
                  n \in 0..MaxDocs, b \in {None} \cup {Some(x) : x \in Bookmarks}}

\* the frame of list before it is called
ListIdle == [pc |-> "idle"]

\* the locals of list after line 46: mochi_objects is the length of the
\* vector and errors the number of recorded errors, counted up to MaxErrors
\* (list reads of errors only whether it is empty); page_count is written
\* and never read and is left out; served is the number of non-empty pages
\* the service has given to this call
ListStart(limit) ==
    [pc |-> "loop", limit |-> limit, mochi_objects |-> 0, bookmark |-> None,
     errors |-> 0, request |-> None, result |-> None, served |-> 0]

\* errors.push
errors_push(errors) == IF errors < MaxErrors THEN errors + 1 ELSE errors

\* list returns result
list_return(frame, result) == [frame EXCEPT !.pc = "returned", !.result = Some(result)]

\* lines 98-102: the result after the loop
list_after_loop(frame) ==
    list_return(frame, IF frame.errors = 0 THEN "Ok" ELSE "Err")

\* lines 70-95: the loop body from the answer of the service on
list_receive(frame, resp) ==
    IF resp.kind = "send_err" THEN list_return(frame, "Err")
    ELSE IF resp.kind = "status_err"
    THEN (IF resp.body = "unreadable" THEN [frame EXCEPT !.pc = "panicked"]
          ELSE IF resp.body = "not_json" THEN list_return(frame, "Err")
          ELSE [frame EXCEPT !.pc = "loop", !.errors = errors_push(@)])
    ELSE IF resp.page = None THEN list_return(frame, "Err")
    ELSE IF resp.page[1].docs = 0 THEN list_after_loop(frame)
    ELSE LET extended == frame.mochi_objects + resp.page[1].docs
             next == [frame EXCEPT !.mochi_objects = extended,
                                   !.bookmark = resp.page[1].bookmark,
                                   !.served = @ + 1]
         IN  IF frame.limit # None /\ extended >= frame.limit[1]
             THEN list_return([next EXCEPT !.mochi_objects = frame.limit[1]], "Ok")
             ELSE [next EXCEPT !.pc = "loop"]

---------------------------------------------------------------------------
\* add_pitch_accent_to_cards

\* models.rs: of a Card the id (which stands for all the fields the
\* function never looks at), the template id and the fields map
Card(id, template_id, fields) == [id |-> id, template_id |-> template_id, fields |-> fields]
CardField(id, value) == [id |-> id, value |-> value]
TemplateField(id, name) == [id |-> id, name |-> name]
Template(id, fields) == [id |-> id, fields |-> fields]

\* HashMap::insert
map_insert(map, key, value) ==
    [k \in DOMAIN map \cup {key} |-> IF k = key THEN value ELSE map[k]]

\* templates.iter().find(|t| t.id.eq(template_id)).and_then(|f| f.fields.clone())
find_template_fields(templates, template_id) ==
    IF \A p \in 1..Len(templates) : templates[p].id # template_id THEN None
    ELSE LET first == CHOOSE p \in 1..Len(templates) :
                          /\ templates[p].id = template_id
                          /\ \A q \in 1..(p - 1) : templates[q].id # template_id
         IN  templates[first].fields

\* template_fields.iter().find(|(_, v)| v.name.eq(name)): the fields find
\* can return, the order of the iteration of a HashMap being arbitrary
fields_named(template_fields, name) ==
    {template_fields[k] : k \in {x \in DOMAIN template_fields : template_fields[x].name = name}}

\* the closure ends in the panic of template_id.as_ref().unwrap()
CardPanic == [panic |-> "called Option::unwrap() on a None value",
              location |-> "src/lib.rs:211"]

\* the closure of the map over the cards: the cards it can return for card,
\* or the panic
card_outcomes(card, templates, word_field_name, pitch_accent_field_name, accents) ==
    IF card.template_id = None THEN {CardPanic}
    ELSE LET template_fields == find_template_fields(templates, card.template_id[1])
         IN  IF template_fields = None THEN {card}
             ELSE LET word_fields == fields_named(template_fields[1], word_field_name)
                      pitch_accent_fields ==
                          fields_named(template_fields[1], pitch_accent_field_name)
                  IN  IF word_fields = {} THEN {card}
                      ELSE IF pitch_accent_fields = {} THEN {card}
                      ELSE IF card.fields = None THEN {card}
                      ELSE {IF word_field.id \notin DOMAIN card.fields[1] THEN card
                            ELSE LET word == card.fields[1][word_field.id].value
                                     html == generate_html(word, accents)
                                     pitch_accent ==
                                         CardField(pitch_accent_field.id, html)
                                 IN  [card EXCEPT !.fields =
                                         Some(map_insert(card.fields[1],
                                                         pitch_accent_field.id,
                                                         pitch_accent))] :
                               word_field \in word_fields,
                               pitch_accent_field \in pitch_accent_fields}

\* the results of add_pitch_accent_to_cards; templates is what
\* list_templates returns: None for Err, Some of its templates for Ok
add_pitch_accent_outcomes(cards, templates, word_field_name, pitch_accent_field_name, accents) ==
    IF templates = None THEN {[kind |-> "Err"]}
    ELSE LET outs == [p \in 1..Len(cards) |->
                         card_outcomes(cards[p], templates[1], word_field_name,
                                       pitch_accent_field_name, accents)]
         IN  IF \E p \in 1..Len(cards) : CardPanic \in outs[p]
             THEN {[kind |-> "panic"]}
             ELSE {[kind |-> "Ok", cards |-> r] :
                      r \in {x \in [1..Len(cards) -> UNION {outs[p] : p \in 1..Len(cards)}] :
                                 \A p \in 1..Len(cards) : x[p] \in outs[p]}}

\* the templates of the service: with both fields, without fields, without
\* the pitch-accent field, without the word field, with two fields named
\* as the pitch-accent field
ServiceTemplates ==
    <<Template("t1", Some([k \in {"f1", "f2"} |->
                               IF k = "f1" THEN TemplateField("f1", "Word")
                               ELSE TemplateField("f2", "PitchAccent")])),
      Template("t2", None),
      Template("t3", Some([k \in {"f1"} |-> TemplateField("f1", "Word")])),
      Template("t4", Some([k \in {"f2"} |-> TemplateField("f2", "PitchAccent")])),
      Template("t5", Some([k \in {"f1", "f2", "f3"} |->
                               IF k = "f1" THEN TemplateField("f1", "Word")
                               ELSE TemplateField(k, "PitchAccent")]))>>

\* what list_templates returns
TemplateResults == {None, Some(<<>>), Some(ServiceTemplates)}

\* the fields maps of the cards: none, empty, with the word, with the word
\* and an earlier pitch accent
CardFieldMaps ==
    {None,
     Some([k \in {} |-> CardField(k, <<>>)]),
     Some([k \in {"f1"} |-> CardField("f1", <<"ka">>)]),
     Some([k \in {"f1", "f2"} |->
              IF k = "f1" THEN CardField("f1", <<"si", "xya">>)
              ELSE CardField("f2", <<"old">>)])}

CardTemplateIds == {None} \cup {Some(t) : t \in {"t1", "t2", "t3", "t4", "t5", "t9"}}

Cards == {Card("c", t, f) : t \in CardTemplateIds, f \in CardFieldMaps}

\* the lines of the resource of the cards' dictionary
CardLines ==
    {<<<<"ka">>, <<>>, <<Code(None, Some(1))>>>>,
     <<<<"si", "xya">>, <<"ka", "si">>, <<Code(None, Some(0)), Code(None, Some(2))>>>>}

---------------------------------------------------------------------------
\* The state after construction: load_accents has read no line, no function
\* has been called.

Init ==
    /\ pc = "loading"
    /\ lines = <<>>
    /\ words = EmptyMap
    /\ call = [fn |-> "none"]
    /\ ret = <<>>
    /\ panic = None
    /\ lst = ListIdle

\* a call of KanaString::iter_mora
CallIterMora(kana) ==
    /\ call' = [fn |-> "iter_mora", kana |-> kana]
    /\ ret' = iter_mora(kana)
    /\ UNCHANGED <<pc, lines, words, panic, lst>>

\* a call of generate_mora_edges
CallGenerateMoraEdges(kana, accent_type) ==
    /\ call' = [fn |-> "generate_mora_edges", kana |-> kana, accent_type |-> accent_type]
    /\ ret' = generate_mora_edges(kana, accent_type)
    /\ UNCHANGED <<pc, lines, words, panic, lst>>

\* a call of generate_html_for_accent
CallGenerateHtmlForAccent(kana, accent) ==
    /\ call' = [fn |-> "generate_html_for_accent", kana |-> kana, accent |-> accent]
    /\ ret' = generate_html_for_accent(kana, accent)
    /\ UNCHANGED <<pc, lines, words, panic, lst>>

\* the caller takes the result of the call
Return ==
    /\ call.fn # "none"
    /\ call' = [fn |-> "none"]
    /\ ret' = <<>>
    /\ UNCHANGED <<pc, lines, words, panic, lst>>

\* one iteration of the for loop of load_accents
LoadLine(line) ==
    /\ pc = "loading"
    /\ lines' = Append(lines, line)
    /\ IF line_panics(line)
       THEN /\ pc' = "panicked"
            /\ panic' = Some(unwrap_panic(line))
            /\ UNCHANGED words
       ELSE /\ pc' = pc
            /\ words' = entry_push(words, line[1], line_accents(line))
            /\ UNCHANGED panic
    /\ UNCHANGED <<call, ret, lst>>

\* the for loop is over: load_accents returns words
FinishLoad ==
    /\ pc = "loading"
    /\ pc' = "loaded"
    /\ UNCHANGED <<lines, words, call, ret, panic, lst>>

\* a call of generate_html with the loaded map
GenerateHtml(word) ==
    /\ pc = "loaded"
    /\ call' = [fn |-> "generate_html", word |-> word]
    /\ ret' = generate_html(word, words)
    /\ UNCHANGED <<pc, lines, words, panic, lst>>

\* list is called
ListCall(limit) ==
    /\ lst.pc = "idle"
    /\ lst' = ListStart(limit)
    /\ UNCHANGED <<pc, lines, words, call, ret, panic>>

\* lines 48-68: the top of the loop, up to the request being sent with the
\* bookmark among its query arguments
ListSend ==
    /\ lst.pc = "loop"
    /\ lst' = [lst EXCEPT !.pc = "await", !.request = Some([bookmark |-> lst.bookmark])]
    /\ UNCHANGED <<pc, lines, words, call, ret, panic>>

\* the service answers the request and list runs the rest of the loop body;
\* the service has non-empty pages only while it has given fewer than
\* MaxPages of them
ListReceive(resp) ==
    /\ lst.pc = "await"
    /\ (resp.kind = "ok" /\ resp.page # None /\ resp.page[1].docs > 0)
           => lst.served < MaxPages
    /\ lst' = list_receive(lst, resp)
    /\ UNCHANGED <<pc, lines, words, call, ret, panic>>

\* a call of add_pitch_accent_to_cards; accents is the map its call of
\* load_accents returns
AddPitchAccentToCards(cards, templates) ==
    /\ pc = "loaded"
    /\ call' = [fn |-> "add_pitch_accent_to_cards", cards |-> cards,
                templates |-> templates]
    /\ ret' \in add_pitch_accent_outcomes(cards, templates, "Word", "PitchAccent", words)
    /\ UNCHANGED <<pc, lines, words, panic, lst>>

\* the pure functions, each called on its own
NextFn ==
    \/ call.fn = "none" /\ \E kana \in Readings : CallIterMora(kana)
    \/ call.fn = "none" /\ \E kana \in Readings, t \in AccentTypes :
                               CallGenerateMoraEdges(kana, t)
    \/ call.fn = "none" /\ \E kana \in Readings, a \in Accents :
                               CallGenerateHtmlForAccent(kana, a)
    \/ Return

SpecFn == Init /\ [][NextFn]_vars

\* load_accents on a resource of at most one line
NextLine ==
    \/ lines = <<>> /\ \E line \in RichLines : LoadLine(line)
    \/ FinishLoad

SpecLine == Init /\ [][NextLine]_vars

\* a call of list against a service that answers every request
NextList ==
    \/ \E limit \in Limits : ListCall(limit)
    \/ ListSend
    \/ \E resp \in Responses : ListReceive(resp)

\* list goes on whenever it can and every request is answered
SpecList ==
    /\ Init
    /\ [][NextList]_vars
    /\ WF_vars(ListSend)
    /\ WF_vars(\E resp \in Responses : ListReceive(resp))

\* add_pitch_accent_to_cards with the dictionary of a resource of at most
\* one line
NextCards ==
    \/ lines = <<>> /\ \E line \in CardLines : LoadLine(line)
    \/ FinishLoad
    \/ call.fn = "none" /\ \E cards \in SeqsUpTo(Cards, MaxCards), t \in TemplateResults :
                               AddPitchAccentToCards(cards, t)
    \/ Return

SpecCards == Init /\ [][NextCards]_vars

\* load_accents on a resource of several lines, then lookups
Next ==
    \/ Len(lines) < MaxRows /\ \E line \in RowLines : LoadLine(line)
    \/ FinishLoad
    \/ call.fn = "none" /\ \E word \in LookupWords : GenerateHtml(word)
    \/ Return

Spec == Init /\ [][Next]_vars

---------------------------------------------------------------------------
\* Properties.

\* the set of the elements of a sequence
Range(seq) == {seq[p] : p \in 1..Len(seq)}

\* a sequence of edges lists each of the edges of S once and nothing else
IsEdgeSet(edges, S) == Range(edges) = S /\ Len(edges) = Cardinality(S)

\* the table of the edges of the real position i of a reading of n morae
TableEdges(accent_type, i, n) ==
    CASE accent_type.tag = "Heiban" ->
            (CASE i = 0 -> {"Bottom"} [] i = 1 -> {"Left", "Top"} [] i >= 2 -> {"Top"})
      [] accent_type.tag = "Atamadaka" ->
            (CASE i = 0 -> {"Top"} [] i = 1 -> {"Left", "Bottom"} [] i >= 2 -> {"Bottom"})
      [] accent_type.tag = "Nakadaka" ->
            (CASE i = 0 -> {"Bottom"}
               [] i = 1 -> {"Left", "Top"}
               [] 2 <= i /\ i < accent_type.idx -> {"Top"}
               [] 2 <= i /\ i = accent_type.idx -> {"Left", "Bottom"}
               [] 2 <= i /\ i > accent_type.idx -> {"Bottom"})
      [] accent_type.tag = "Odaka" ->
            (CASE i = 0 -> (IF n = 1 THEN {"Top"} ELSE {"Bottom"})
               [] i = 1 -> {"Left", "Top"}
               [] i >= 2 -> {"Top"})

\* the table of the edges of the trailing position
TableTrailing(accent_type) ==
    CASE accent_type.tag = "Heiban" -> {"Top"}
      [] accent_type.tag = "Atamadaka" -> {"Bottom"}
      [] accent_type.tag = "Nakadaka" -> {"Bottom"}
      [] accent_type.tag = "Odaka" -> {"Left", "Bottom"}

\* the Nakadaka(d) the table is about: 2 <= d < n
InTableRange(accent_type, n) ==
    accent_type.tag = "Nakadaka" => 2 <= accent_type.idx /\ accent_type.idx < n

\* C1: for every reading of n morae and every accent type (a Nakadaka(d)
\* with 2 <= d < n), generate_mora_edges gives every real position
\* i in 0..n-1 exactly the edges of the table.
C1_EdgesFollowTable ==
    call.fn = "generate_mora_edges" =>
        LET n == Len(iter_mora(call.kana))
        IN  InTableRange(call.accent_type, n) =>
                \A i \in 0..(n - 1) :
                    /\ i + 1 <= Len(ret)
                    /\ IsEdgeSet(ret[i + 1], TableEdges(call.accent_type, i, n))

\* a Nakadaka(3) over five morae: rise, high, drop and low positions all occur
C1_Witness ==
    /\ call.fn = "generate_mora_edges"
    /\ call.accent_type = Nakadaka(3)
    /\ Len(iter_mora(call.kana)) = 5
    /\ ret[3] = <<"Top">>
    /\ ret[4] = <<"Left", "Bottom">>
    /\ ret[5] = <<"Bottom">>

\* C2: for every reading of n morae (n = 0 included) and every accent type
\* the result of generate_mora_edges has exactly n + 1 positions, and its
\* last position carries the edges its accent type alone determines:
\* Heiban {Top}, Atamadaka {Bottom}, Nakadaka {Bottom}, Odaka {Left, Bottom}.
C2_TrailingPosition ==
    call.fn = "generate_mora_edges" =>
        LET n == Len(iter_mora(call.kana))
        IN  /\ Len(ret) = n + 1
            /\ IsEdgeSet(ret[n + 1], TableTrailing(call.accent_type))

\* the empty reading with Odaka: the trailing position is the only one
C2_Witness ==
    /\ call.fn = "generate_mora_edges"
    /\ call.kana = <<>>
    /\ call.accent_type = Odaka
    /\ ret = << <<"Left", "Bottom">> >>

\* the morae of the reading of a line: of the word when the reading field
\* is empty
MoraCount(line) == Len(iter_mora(IF line[2] = <<>> THEN line[1] ELSE line[2]))

\* the classification rule, first match first
RuleType(index, moraCount) ==
    CASE index = 0 -> Heiban
      [] index = 1 -> Atamadaka
      [] index > 1 /\ index = moraCount -> Odaka
      [] OTHER -> Nakadaka(index)

\* the row the only line of the resource has put in the map
OnlyRow == words[lines[1][1]][1]

\* load_accents has put the only line of the resource in the map
OneLineLoaded == pc \in {"loading", "loaded"} /\ Len(lines) = 1

\* C3: load_accents classifies every accent code of a row by the first
\* rule that matches: index 0 Heiban, index 1 Atamadaka, index = moraCount
\* Odaka, any other index Nakadaka(index), moraCount being the number of
\* morae of the row's reading and the reading the word itself when the
\* reading field is empty.
C3_ClassifiedByFirstRule ==
    OneLineLoaded =>
        /\ DOMAIN words = {lines[1][1]}
        /\ Len(words[lines[1][1]]) = 1
        /\ Len(OnlyRow.accents) = Len(lines[1][3])
        /\ \A p \in 1..Len(lines[1][3]) :
               OnlyRow.accents[p].accent_type
                   = RuleType(lines[1][3][p].index[1], MoraCount(lines[1]))

\* a row with an empty reading field and a two-mora word, classified Odaka
\* by index 2 and Atamadaka by index 1
C3_Witness ==
    /\ OneLineLoaded
    /\ lines[1][2] = <<>>
    /\ MoraCount(lines[1]) = 2
    /\ Len(lines[1][3]) = 2
    /\ lines[1][3][1].index = Some(2)
    /\ lines[1][3][2].index = Some(1)
    /\ OnlyRow.accents[1].accent_type = Odaka
    /\ OnlyRow.accents[2].accent_type = Atamadaka

\* C4: in every dictionary load_accents returns every Nakadaka(d) entry of
\* every row has 2 <= d < moraCount of the row's reading.
C4_NakadakaInRange ==
    pc = "loaded" =>
        \A w \in DOMAIN words : \A r \in 1..Len(words[w]) :
            \A p \in 1..Len(words[w][r].accents) :
                LET t == words[w][r].accents[p].accent_type
                IN  t.tag = "Nakadaka" =>
                        2 <= t.idx /\ t.idx < Len(iter_mora(words[w][r].kana))

\* the combining set: the small kana
CombiningSet ==
    {"xa", "xi", "xu", "xe", "xo", "xtu", "xya", "xyu", "xyo",
     "XA", "XI", "XU", "XE", "XO", "XTU", "XYA", "XYU", "XYO", "XWA"}

\* the pieces of a sequence of pieces put one after the other
RECURSIVE Flatten(_)
Flatten(pieces) ==
    IF pieces = <<>> THEN <<>> ELSE Head(pieces) \o Flatten(Tail(pieces))

\* the positions of the reading at which a piece other than the first starts
CutsOf(pieces) ==
    {Len(Flatten(SubSeq(pieces, 1, p - 1))) + 1 : p \in 2..Len(pieces)}

\* C5: iter_mora cuts the reading into consecutive non-empty pieces that
\* keep every character in its order, with a cut before a character
\* exactly when it is not the first one and is not in the combining set;
\* the empty reading gives the empty sequence.
C5_CutsBeforeNonCombining ==
    call.fn = "iter_mora" =>
        /\ Flatten(ret) = call.kana
        /\ \A p \in 1..Len(ret) : ret[p] # <<>>
        /\ CutsOf(ret) = {j \in 2..Len(call.kana) : call.kana[j] \notin CombiningSet}
        /\ (call.kana = <<>> => ret = <<>>)

\* a reading that starts with a combining character and has one that
\* follows a full-size character
C5_Witness ==
    /\ call.fn = "iter_mora"
    /\ call.kana = <<"xtu", "ka", "xya", "si">>
    /\ ret = << <<"xtu">>, <<"ka", "xya">>, <<"si">> >>

\* C6 as stated: every mora that iter_mora returns consists of one or two
\* adjacent characters of the reading.
C6_OneOrTwoChars ==
    call.fn = "iter_mora" => \A p \in 1..Len(ret) : Len(ret[p]) \in {1, 2}

\* the piece p of pieces lies in the reading as adjacent characters, at the
\* place the pieces before it leave
IsAdjacentRun(reading, pieces, p) ==
    LET start == Len(Flatten(SubSeq(pieces, 1, p - 1)))
    IN  /\ start + Len(pieces[p]) <= Len(reading)
        /\ pieces[p] = SubSeq(reading, start + 1, start + Len(pieces[p]))

\* C6 (amended): every mora that iter_mora returns consists of one
\* character of the reading followed by all the combining characters that
\* directly follow it, so of one or more adjacent characters: of more than
\* two when two or more combining characters follow one another.
C6_LeadPlusCombining ==
    call.fn = "iter_mora" =>
        \A p \in 1..Len(ret) :
            /\ Len(ret[p]) >= 1
            /\ IsAdjacentRun(call.kana, ret, p)
            /\ \A j \in 2..Len(ret[p]) : ret[p][j] \in CombiningSet
            /\ LET next == Len(Flatten(SubSeq(ret, 1, p))) + 1
               IN  next <= Len(call.kana) => call.kana[next] \notin CombiningSet

\* a mora of three characters
C6_Witness ==
    /\ call.fn = "iter_mora"
    /\ call.kana = <<"si", "xya", "xtu", "ka">>
    /\ ret = << <<"si", "xya", "xtu">>, <<"ka">> >>

WrapperOpen == "<div style=\"text-align: center\">"
WrapperClose == "</div>"
RowSeparator == "<div style=\"line-height:100%;\"><br></div>"
SpanOpen == "<span style=\""
SpanOpenEnd == "\">"
SpanClose == "</span>"
LabelOpen == "<span style=\"font-weight:bold\">"
LabelClose == ": </span>"

\* the number of places of a sequence that hold tok
Count(seq, tok) == Cardinality({p \in 1..Len(seq) : seq[p] = tok})

\* the pieces of seq between the occurrences of sep
RECURSIVE SplitAt(_, _)
SplitAt(seq, sep) ==
    IF \A p \in 1..Len(seq) : seq[p] # sep THEN <<seq>>
    ELSE LET k == CHOOSE p \in 1..Len(seq) :
                      seq[p] = sep /\ \A q \in 1..(p - 1) : seq[q] # sep
         IN  <<SubSeq(seq, 1, k - 1)>> \o SplitAt(SubSeq(seq, k + 1, Len(seq)), sep)

\* a step in which generate_html is called
IsGenerateHtmlCall == call.fn = "none" /\ call'.fn = "generate_html"

\* C7: generate_html is total: for every dictionary and every word it
\* returns a string, for a word that is not a key of the dictionary exactly
\* the empty wrapper, and it leaves the dictionary unchanged.
C7_TotalEmptyWrapper ==
    [][IsGenerateHtmlCall =>
           /\ words' = words
           /\ Len(ret') >= 2
           /\ \A p \in 1..Len(ret') : ret'[p] \in STRING
           /\ (call'.word \notin DOMAIN words => ret' = <<WrapperOpen, WrapperClose>>)]_vars

\* a lookup of a word that is not a key of a dictionary that has keys
C7_Witness ==
    /\ call.fn = "generate_html"
    /\ DOMAIN words # {}
    /\ call.word \notin DOMAIN words
    /\ ret = <<WrapperOpen, WrapperClose>>

\* C8: for a known word generate_html renders every row of the word in
\* dictionary order and every entry of a row in source order, the entries
\* of a row joined by the middle dot, the rows by the row separator, the
\* whole wrapped once: k rows have k - 1 row separators and a row of m
\* entries has m - 1 middle dots.
C8_RowsAndEntriesJoined ==
    (call.fn = "generate_html" /\ call.word \in DOMAIN words) =>
        LET rows == words[call.word]
            inner == SubSeq(ret, 2, Len(ret) - 1)
            segs == SplitAt(inner, RowSeparator)
        IN  /\ Len(ret) >= 2
            /\ ret[1] = WrapperOpen
            /\ ret[Len(ret)] = WrapperClose
            /\ Count(ret, WrapperOpen) = 1
            /\ Count(ret, WrapperClose) = 1
            /\ Count(ret, RowSeparator) = Len(rows) - 1
            /\ Len(segs) = Len(rows)
            /\ \A r \in 1..Len(rows) :
                   LET parts == SplitAt(segs[r], MiddleDot)
                   IN  /\ Count(segs[r], MiddleDot) = Len(rows[r].accents) - 1
                       /\ Len(parts) = Len(rows[r].accents)
                       /\ \A p \in 1..Len(parts) :
                              parts[p] = generate_html_for_accent(rows[r].kana,
                                                                  rows[r].accents[p])

\* a word of two rows, the first of them with two entries
C8_Witness ==
    /\ call.fn = "generate_html"
    /\ call.word \in DOMAIN words
    /\ Len(words[call.word]) = 2
    /\ Len(words[call.word][1].accents) = 2
    /\ Count(ret, RowSeparator) = 1
    /\ Count(ret, MiddleDot) >= 1

\* the markup without the label of the note
Body(html, accent) ==
    IF accent.note # None
    THEN SubSeq(html, Len(accent.note[1]) + 3, Len(html))
    ELSE html

\* the place of the i-th span of the markup
NthSpan(html, i) ==
    CHOOSE q \in 1..Len(html) :
        /\ html[q] = SpanOpen
        /\ Cardinality({x \in 1..q : html[x] = SpanOpen}) = i

\* the border declarations of the span that opens at place q
DeclsAt(html, q) ==
    LET e == CHOOSE j \in (q + 1)..Len(html) :
                 html[j] = SpanOpenEnd /\ \A x \in (q + 1)..(j - 1) : html[x] # SpanOpenEnd
    IN  SubSeq(html, q + 1, e - 1)

\* the text of the span that opens at place q
TextAt(html, q) ==
    LET e == CHOOSE j \in (q + 1)..Len(html) :
                 html[j] = SpanOpenEnd /\ \A x \in (q + 1)..(j - 1) : html[x] # SpanOpenEnd
        c == CHOOSE j \in (e + 1)..Len(html) :
                 html[j] = SpanClose /\ \A x \in (e + 1)..(j - 1) : html[x] # SpanClose
    IN  SubSeq(html, e + 1, c - 1)

DeclTop == "BORDER-TOP: #FF6633 medium solid;"
DeclBottom == "BORDER-BOTTOM: #FF6633 medium solid;"
DeclLeft == "BORDER-LEFT: #FF6633 medium solid;"

\* the declaration of an edge
DeclOf(e) ==
    CASE e = "Top" -> DeclTop [] e = "Bottom" -> DeclBottom [] e = "Left" -> DeclLeft

\* C9: for every reading of n morae and every accent entry,
\* generate_html_for_accent emits exactly n + 1 spans: span i (i < n) holds
\* mora i of the reading with the edges of position i, the last span holds
\* the ellipsis with the edges of the trailing position; the bold label
\* "{note}: " comes before the spans exactly when the entry has a note.
C9_OneSpanPerPosition ==
    call.fn = "generate_html_for_accent" =>
        LET morae == iter_mora(call.kana)
            n == Len(morae)
            edges == generate_mora_edges(call.kana, call.accent.accent_type)
            body == Body(ret, call.accent)
        IN  /\ Count(ret, SpanOpen) = n + 1
            /\ Count(ret, SpanClose) = n + 1
            /\ Len(edges) = n + 1
            /\ \A i \in 1..(n + 1) :
                   /\ Range(DeclsAt(ret, NthSpan(ret, i))) = {DeclOf(e) : e \in Range(edges[i])}
                   /\ Len(DeclsAt(ret, NthSpan(ret, i))) = Len(edges[i])
                   /\ TextAt(ret, NthSpan(ret, i))
                          = IF i <= n THEN morae[i] ELSE <<Ellipsis>>
            /\ body # <<>> /\ body[1] = SpanOpen /\ body[Len(body)] = SpanClose
            /\ Len(body) = Len(Flatten(morae)) + 1 + Len(Flatten(edges)) + 3 * (n + 1)
            /\ IF call.accent.note # None
               THEN /\ Count(ret, LabelOpen) = 1
                    /\ SubSeq(ret, 1, Len(call.accent.note[1]) + 2)
                           = <<LabelOpen>> \o call.accent.note[1] \o <<LabelClose>>
               ELSE Count(ret, LabelOpen) = 0 /\ Count(ret, LabelClose) = 0

\* an entry with a note over a reading of three chars in two morae
C9_Witness ==
    /\ call.fn = "generate_html_for_accent"
    /\ call.kana = <<"ka", "xtu", "si">>
    /\ call.accent = Accent(Odaka, Some(<<"kei", "dou">>))
    /\ Count(ret, SpanOpen) = 3
    /\ TextAt(ret, NthSpan(ret, 1)) = <<"ka", "xtu">>
    /\ TextAt(ret, NthSpan(ret, 3)) = <<Ellipsis>>

\* the place of a declaration in the order Top, Bottom, Left
RankTopBottomLeft(decl) ==
    CASE decl = DeclTop -> 1 [] decl = DeclBottom -> 2 [] decl = DeclLeft -> 3

\* the place of a declaration in the order Left, then Top or Bottom
RankLeftFirst(decl) ==
    CASE decl = DeclLeft -> 1 [] decl = DeclTop -> 2 [] decl = DeclBottom -> 2

\* C10 as stated: in the style attribute of every emitted span the border
\* declarations appear in the order Top, then Bottom, then Left.
C10_TopBottomLeftOrder ==
    call.fn = "generate_html_for_accent" =>
        \A i \in 1..Count(ret, SpanOpen) :
            LET decls == DeclsAt(ret, NthSpan(ret, i))
            IN  \A a, b \in 1..Len(decls) :
                    a < b => RankTopBottomLeft(decls[a]) < RankTopBottomLeft(decls[b])

\* C10 (amended): in the style attribute of every emitted span the border
\* declarations appear in the order of the edges of that position, Left
\* first and then Top or Bottom: a position whose edges are Left and Top is
\* rendered as BORDER-LEFT: #FF6633 medium solid; followed by
\* BORDER-TOP: #FF6633 medium solid;.
C10_LeftFirstOrder ==
    call.fn = "generate_html_for_accent" =>
        LET edges == generate_mora_edges(call.kana, call.accent.accent_type)
        IN  \A i \in 1..Count(ret, SpanOpen) :
                LET decls == DeclsAt(ret, NthSpan(ret, i))
                IN  /\ \A p \in 1..Len(decls) : decls[p] \in {DeclTop, DeclBottom, DeclLeft}
                    /\ \A a, b \in 1..Len(decls) :
                           a < b => RankLeftFirst(decls[a]) < RankLeftFirst(decls[b])
                    /\ (i <= Len(edges) /\ Range(edges[i]) = {"Left", "Top"})
                           => decls = <<DeclLeft, DeclTop>>

\* a rendering with a Left and Top position and a Left and Bottom position
C10_Witness ==
    /\ call.fn = "generate_html_for_accent"
    /\ call.accent.accent_type = Nakadaka(2)
    /\ Len(iter_mora(call.kana)) = 3
    /\ DeclsAt(ret, NthSpan(ret, 2)) = <<DeclLeft, DeclTop>>
    /\ DeclsAt(ret, NthSpan(ret, 3)) = <<DeclLeft, DeclBottom>>

\* the places of the lines that carry the word w, in source order
RECURSIVE PlacesOf(_, _)
PlacesOf(ls, w) ==
    IF ls = <<>> THEN <<>>
    ELSE LET before == PlacesOf(SubSeq(ls, 1, Len(ls) - 1), w)
         IN  IF ls[Len(ls)][1] = w THEN Append(before, Len(ls)) ELSE before

\* the row load_accents makes of a line
RowOf(line) == line_accents(line)

\* C11: after load_accents has processed any sequence of rows the
\* dictionary maps each word to the sequence of exactly the rows that carry
\* this word, in source row order: a later row of a word is appended, no
\* row is overwritten, reordered or lost.
C11_RowsAccumulateInOrder ==
    pc \in {"loading", "loaded"} =>
        /\ DOMAIN words = {lines[p][1] : p \in 1..Len(lines)}
        /\ \A w \in DOMAIN words :
               LET places == PlacesOf(lines, w)
               IN  /\ Len(words[w]) = Len(places)
                   /\ \A r \in 1..Len(places) : words[w][r] = RowOf(lines[places[r]])

\* three rows, the first and the third of one word with different
\* readings, the second of another word
C11_Witness ==
    /\ pc = "loaded"
    /\ Len(lines) = 3
    /\ lines[1][1] = lines[3][1]
    /\ lines[2][1] # lines[1][1]
    /\ Len(words[lines[1][1]]) = 2
    /\ words[lines[1][1]][1].kana # words[lines[1][1]][2].kana
    /\ Len(words[lines[2][1]]) = 1

\* the report names the line and its place in the resource
ReportsLine(report, line, position) ==
    /\ "content" \in DOMAIN report
    /\ report.content = line
    /\ "position" \in DOMAIN report
    /\ report.position = position

\* C12: when the resource holds a malformed row, load_accents ends in a
\* load error that reports the content and the position of the offending
\* line, and no partially loaded dictionary is returned.
C12_MalformedRowReported ==
    (lines # <<>> /\ line_panics(lines[Len(lines)])) =>
        /\ pc # "loaded"
        /\ panic # None
        /\ ReportsLine(panic[1], lines[Len(lines)], Len(lines))

\* C13: a call of list returns after finitely many requests whenever every
\* request is answered, also when the service answers each request with an
\* HTTP error status: it does not ask for the same page forever.  (A call
\* that a panic ends counts as over.)
C13_ListReturns == (lst.pc = "loop") ~> (lst.pc \in {"returned", "panicked"})

\* C14: a call of list returns Ok only when no request of that call was
\* answered with an HTTP error status: once an error has been recorded the
\* result is Err, whether the loop ends on an empty page or on the limit.
C14_OkOnlyWithoutErrors ==
    (lst.pc = "returned" /\ lst.result = Some("Ok")) => lst.errors = 0

\* the ids of the fields of the card's template that are named name
FieldIdsNamed(templates, card, name) ==
    IF card.template_id = None THEN {}
    ELSE LET found == {p \in 1..Len(templates) : templates[p].id = card.template_id[1]}
         IN  IF found = {} THEN {}
             ELSE LET t == templates[CHOOSE p \in found : \A q \in found : p <= q]
                  IN  IF t.fields = None THEN {}
                      ELSE {t.fields[1][k].id :
                               k \in {x \in DOMAIN t.fields[1] : t.fields[1][x].name = name}}

\* the card lacks its template id, its template, the word field, the
\* pitch-accent field, its fields map or the value of the word
LacksSomething(templates, card) ==
    \/ FieldIdsNamed(templates, card, "Word") = {}
    \/ FieldIdsNamed(templates, card, "PitchAccent") = {}
    \/ card.fields = None
    \/ \A w \in FieldIdsNamed(templates, card, "Word") : w \notin DOMAIN card.fields[1]

\* the card out is the card in but for the entry key of its fields map
SameButFor(in, out, key) ==
    /\ out.id = in.id
    /\ out.template_id = in.template_id
    /\ in.fields # None
    /\ out.fields # None
    /\ DOMAIN out.fields[1] \ {key} = DOMAIN in.fields[1] \ {key}
    /\ \A k \in DOMAIN out.fields[1] \ {key} : out.fields[1][k] = in.fields[1][k]

\* C15: for every sequence of cards and every set of templates
\* add_pitch_accent_to_cards returns as many cards in the same order, each
\* equal to its input card but for the entry of its fields map keyed by the
\* id of the pitch-accent field; a card that lacks its template id, its
\* template, the word field, the pitch-accent field, its fields map or the
\* value of the word is returned unchanged.
C15_CardsKeptButPitchAccent ==
    (call.fn = "add_pitch_accent_to_cards" /\ call.templates # None) =>
        /\ ret.kind = "Ok"
        /\ Len(ret.cards) = Len(call.cards)
        /\ \A p \in 1..Len(call.cards) :
               \/ ret.cards[p] = call.cards[p]
               \/ /\ ~LacksSomething(call.templates[1], call.cards[p])
                  /\ \E key \in FieldIdsNamed(call.templates[1], call.cards[p], "PitchAccent") :
                         SameButFor(call.cards[p], ret.cards[p], key)

\* C16: in every dictionary load_accents returns an entry classified Odaka
\* belongs to a row whose reading has at least 2 morae, index 1 being
\* Atamadaka and index 0 Heiban whatever the number of morae, so that
\* generate_mora_edges never gets Odaka with one mora from the dictionary.
C16_OdakaHasTwoMorae ==
    pc \in {"loading", "loaded"} =>
        \A w \in DOMAIN words : \A r \in 1..Len(words[w]) :
            \A p \in 1..Len(words[w][r].accents) :
                words[w][r].accents[p].accent_type = Odaka
                    => Len(iter_mora(words[w][r].kana)) >= 2

\* a returned dictionary whose row has a reading field of two morae and an
\* Odaka entry from index 2
C16_Witness ==
    /\ pc = "loaded"
    /\ Len(lines) = 1
    /\ lines[1][2] # <<>>
    /\ MoraCount(lines[1]) = 2
    /\ \E p \in 1..Len(lines[1][3]) :
           /\ lines[1][3][p].index = Some(2)
           /\ OnlyRow.accents[p].accent_type = Odaka

\* a returned dictionary whose row has a reading of one mora and an
\* Atamadaka entry from index 1
C16_OneMoraAtamadaka ==
    /\ pc = "loaded"
    /\ Len(lines) = 1
    /\ MoraCount(lines[1]) = 1
    /\ \E p \in 1..Len(lines[1][3]) :
           /\ lines[1][3][p].index = Some(1)
           /\ OnlyRow.accents[p].accent_type = Atamadaka

====
